---- MODULE Spec2Model ----
(***************************************************************************)
(* torchgan/losses/boundaryequilibrium.py:                                 *)
(* BoundaryEquilibriumDiscriminatorLoss, the BEGAN discriminator loss and  *)
(* its balance coefficient k.                                              *)
(*                                                                         *)
(* Python floats are modelled as exact rationals n/d in lowest terms plus  *)
(* NaN; None is a value of its own.  A tensor is the sequence of its       *)
(* elements.  Every call of a collaborator (torch.randn, the optimizer,    *)
(* the generator, the discriminator, backward) is recorded, with the       *)
(* arguments it received, in `events`; a collaborator may raise.           *)
(***************************************************************************)
EXTENDS Integers, Sequences, FiniteSets

\* ------------------------------------------------------------------ values
RECURSIVE GCD(_, _)
GCD(a, b) == IF b = 0 THEN a ELSE GCD(b, a % b)

Abs(n) == IF n < 0 THEN -n ELSE n

None == [kind |-> "None", n |-> 0, d |-> 1]
NaN  == [kind |-> "nan",  n |-> 0, d |-> 1]

\* the float n/d, d > 0
Rat(n, d) == LET g == GCD(Abs(n), d)
             IN  [kind |-> "num", n |-> n \div g, d |-> d \div g]

Zero == Rat(0, 1)
One  == Rat(1, 1)

IsNum(a) == a.kind = "num"

\* float arithmetic: NaN propagates, every comparison with NaN is false
mul(a, b) == IF IsNum(a) /\ IsNum(b) THEN Rat(a.n * b.n, a.d * b.d) ELSE NaN
add(a, b) == IF IsNum(a) /\ IsNum(b) THEN Rat(a.n * b.d + b.n * a.d, a.d * b.d) ELSE NaN
sub(a, b) == IF IsNum(a) /\ IsNum(b) THEN Rat(a.n * b.d - b.n * a.d, a.d * b.d) ELSE NaN
abs(a)    == IF IsNum(a) THEN Rat(Abs(a.n), a.d) ELSE NaN
lt(a, b)  == IsNum(a) /\ IsNum(b) /\ a.n * b.d < b.n * a.d
gt(a, b)  == lt(b, a)

\* ------------------------------------------------------------------ bounds
MaxCalls == 2

\* the values that init_k, the argument of set_k, lambd, gamma and the
\* losses given to update_k are drawn from
InitKs  == {Zero, Rat(2, 1)}
SetKs   == {Rat(99, 100), Rat(-1, 4), NaN}
Lambds  == {Rat(1, 1000), Rat(10, 1)}
Gammas  == {Rat(3, 4), Rat(-1, 1)}
Losses  == {Rat(7, 10), Rat(4, 10), NaN}
\* the responses of the discriminator, one element per sample
Tensors == {<<Rat(8, 10), Rat(6, 10)>>, <<Rat(3, 10), Rat(5, 10)>>, <<NaN, Rat(5, 10)>>}
\* the reductions that make a scalar of a response ('none' leaves a tensor,
\* which backward and item() refuse)
Reductions == {"elementwise_mean", "sum"}
\* what a custom step function returns
CustomRets == {Rat(5, 1)}

LabelTypes == {"none", "required", "generated"}
\* the labels argument of train_ops: None or the ground-truth labels
LabelArgs  == {"None", "labels"}
\* the statements of the default step at which a collaborator may raise
FailSites  == {"dx", "fake", "dgz", "forward", "backward", "step"}

VARIABLES
    reduction, k, lambd, gamma, convergence_metric, override_train_ops,
    call,      \* the most recent call on the controller and its arguments
    events,    \* the collaborator calls made by the most recent call, in order
    ret,       \* <<>> or the tuple the most recent call returned
    raised,    \* the exception the most recent call ended with, if any
    ncalls

vars == <<reduction, k, lambd, gamma, convergence_metric, override_train_ops,
          call, events, ret, raised, ncalls>>

\* the controller object
Self == [reduction |-> reduction, k |-> k, lambd |-> lambd, gamma |-> gamma,
         convergence_metric |-> convergence_metric,
         override_train_ops |-> override_train_ops]

NoExc == [exc |-> "none", at |-> "-"]

\* op and its arguments: x and y are the floats given to __init__, set_k
\* and update_k, tensors the tensors given to forward
Call(op, x, y, tensors, g, d, l) ==
    [op |-> op, x |-> x, y |-> y, tensors |-> tensors,
     generator |-> g, discriminator |-> d, labels |-> l]

Event(site, args, vals) == [site |-> site, args |-> args, vals |-> vals]

\* --------------------------------------------------------------- __init__
init(red, over, init_k, l, g) ==
    [reduction |-> red, k |-> init_k, lambd |-> l, gamma |-> g,
     convergence_metric |-> None, override_train_ops |-> over]

\* ----------------------------------------------------------- utils.reduce
RECURSIVE Sum(_)
Sum(t) == IF t = <<>> THEN Zero ELSE add(t[1], Sum(Tail(t)))

\* the tensor t made a scalar: the mean or the sum of its elements
reduce(t, mode) ==
    IF mode = "elementwise_mean" THEN mul(Sum(t), Rat(1, Len(t)))
    ELSE IF mode = "sum" THEN Sum(t)
    ELSE t

\* ---------------------------------------------------------------- forward
forward(self, dx, dgz) ==
    LET loss_real  == reduce(dx, self.reduction)
        loss_fake  == reduce(dgz, self.reduction)
        loss_total == sub(loss_real, mul(self.k, loss_fake))
    IN  <<loss_total, loss_real, loss_fake>>

\* ------------------------------------------------------------------ set_k
\* variant: set_k clamps like update_k does
set_k_clamped(self, v) ==
    [self EXCEPT !.k = IF lt(v, Zero) THEN Zero ELSE IF gt(v, One) THEN One ELSE v]

set_k(self, v) == [self EXCEPT !.k = v]

\* --------------------------------------------------------------- update_k
\* variant: the elif branch of lines 102-103 is missing
update_k_no_upper(self, loss_real, loss_fake) ==
    LET diff == sub(mul(self.gamma, loss_real), loss_fake)
        k1   == add(self.k, mul(self.lambd, diff))
        cm   == add(loss_real, abs(diff))
        k2   == IF lt(k1, Zero) THEN Zero ELSE k1
    IN  [self EXCEPT !.k = k2, !.convergence_metric = cm]

\* variant: the if branch of lines 100-101 is missing
update_k_no_lower(self, loss_real, loss_fake) ==
    LET diff == sub(mul(self.gamma, loss_real), loss_fake)
        k1   == add(self.k, mul(self.lambd, diff))
        cm   == add(loss_real, abs(diff))
        k2   == IF gt(k1, One) THEN One ELSE k1
    IN  [self EXCEPT !.k = k2, !.convergence_metric = cm]

\* variant: line 99 without abs
update_k_signed_metric(self, loss_real, loss_fake) ==
    LET diff == sub(mul(self.gamma, loss_real), loss_fake)
        k1   == add(self.k, mul(self.lambd, diff))
        cm   == add(loss_real, diff)
        k2   == IF lt(k1, Zero) THEN Zero
                ELSE IF gt(k1, One) THEN One
                ELSE k1
    IN  [self EXCEPT !.k = k2, !.convergence_metric = cm]

update_k(self, loss_real, loss_fake) ==
    LET diff == sub(mul(self.gamma, loss_real), loss_fake)
        k1   == add(self.k, mul(self.lambd, diff))
        cm   == add(loss_real, abs(diff))
        k2   == IF lt(k1, Zero) THEN Zero
                ELSE IF gt(k1, One) THEN One
                ELSE k1
    IN  [self EXCEPT !.k = k2, !.convergence_metric = cm]

\* -------------------------------------------------------------- train_ops
\* line 111: labels is None and one of the models requires labels
\* variant: line 111 looks at the generator only
labels_missing_generator_only(gen, disc, labels) ==
    labels = "None" /\ gen = "required"

labels_missing(gen, disc, labels) ==
    labels = "None" /\ (gen = "required" \/ disc = "required")

\* lines 114-115: label_gen is bound only when the generator's label_type is
\* 'generated'; it is the result of this call's first torch.randint
label_gen(gen) == IF gen = "generated" THEN "randint#1" ELSE "unbound"

\* lines 117-122: the arguments of the discriminator call on the real inputs
dx_args(gen, disc, labels) ==
    IF disc = "none" THEN <<"real_inputs">>
    ELSE IF disc = "required" THEN <<"real_inputs", labels>>
    ELSE <<"real_inputs", label_gen(gen)>>

\* lines 123-128: the arguments of the generator call
fake_args(gen, labels) ==
    IF gen = "none" THEN <<"noise">>
    ELSE IF gen = "required" THEN <<"noise", labels>>
    ELSE <<"noise", label_gen(gen)>>

\* lines 129-135: the arguments of the discriminator call on the fake
\* variant: lines 129-135 dispatch on the discriminator's type as lines
\* 117-122 do
dgz_args_as_dx(gen, disc, labels) ==
    IF disc = "none" THEN <<"fake.detach()">>
    ELSE IF disc = "required" THEN <<"fake.detach()", labels>>
    ELSE <<"fake.detach()", label_gen(gen)>>

dgz_args(gen, disc, labels) ==
    IF disc = "none" THEN <<"fake.detach()">>
    ELSE IF gen = "generated" THEN <<"fake.detach()", label_gen(gen)>>
    ELSE <<"fake.detach()", labels>>

\* lines 113-139: the statements of the default step, in program order
\* variant: update_k (line 139) moved before the optimizer's step
default_step_update_before_step(gen, disc, labels) ==
       << Event("randn", <<"encoding_dims">>, <<>>) >>
    \o (IF gen = "generated"
        THEN << Event("randint", <<"num_classes">>, <<>>) >>
        ELSE << >>)
    \o << Event("zero_grad", <<>>, <<>>),
          Event("dx", dx_args(gen, disc, labels), <<>>),
          Event("fake", fake_args(gen, labels), <<>>),
          Event("dgz", dgz_args(gen, disc, labels), <<>>),
          Event("forward", <<"dx", "dgz">>, <<>>),
          Event("backward", <<"loss_total">>, <<>>),
          Event("update_k", <<"loss_real.item()", "loss_fake.item()">>, <<>>),
          Event("step", <<>>, <<>>) >>

\* variant: update_k (line 139) moved right after forward
default_step_update_before_backward(gen, disc, labels) ==
       << Event("randn", <<"encoding_dims">>, <<>>) >>
    \o (IF gen = "generated"
        THEN << Event("randint", <<"num_classes">>, <<>>) >>
        ELSE << >>)
    \o << Event("zero_grad", <<>>, <<>>),
          Event("dx", dx_args(gen, disc, labels), <<>>),
          Event("fake", fake_args(gen, labels), <<>>),
          Event("dgz", dgz_args(gen, disc, labels), <<>>),
          Event("forward", <<"dx", "dgz">>, <<>>),
          Event("update_k", <<"loss_real.item()", "loss_fake.item()">>, <<>>),
          Event("backward", <<"loss_total">>, <<>>),
          Event("step", <<>>, <<>>) >>

default_step(gen, disc, labels) ==
       << Event("randn", <<"encoding_dims">>, <<>>) >>
    \o (IF gen = "generated"
        THEN << Event("randint", <<"num_classes">>, <<>>) >>
        ELSE << >>)
    \o << Event("zero_grad", <<>>, <<>>),
          Event("dx", dx_args(gen, disc, labels), <<>>),
          Event("fake", fake_args(gen, labels), <<>>),
          Event("dgz", dgz_args(gen, disc, labels), <<>>),
          Event("forward", <<"dx", "dgz">>, <<>>),
          Event("backward", <<"loss_total">>, <<>>),
          Event("step", <<>>, <<>>),
          Event("update_k", <<"loss_real.item()", "loss_fake.item()">>, <<>>) >>

\* a statement that reads label_gen while it is unbound raises
\* UnboundLocalError before the call it was to make
ReadsUnbound(e) == \E i \in 1..Len(e.args) : e.args[i] = "unbound"

\* the first statement of plan that does not complete, 0 when all do
Stop(plan, failAt) ==
    LET bad == {i \in 1..Len(plan) : ReadsUnbound(plan[i]) \/ plan[i].site = failAt}
    IN  IF bad = {} THEN 0 ELSE CHOOSE i \in bad : \A j \in bad : i <= j

HasSite(evs, site) == \E i \in 1..Len(evs) : evs[i].site = site

\* env: what the collaborators do in this call: failAt, the statement at
\* which one raises ("none": none does); dx and dgz, the reduced responses
\* of the discriminator; custom, the result of the custom step function

\* lines 108-109: the custom step function is called and its result returned
override_step(self, labels, env) ==
    LET fails == env.failAt = "override_train_ops"
        out   == IF fails THEN <<>> ELSE <<env.custom>>
    IN  [self   |-> self,
         events |-> << Event("override_train_ops",
                             <<"self", "generator", "discriminator",
                               "optimizer_discriminator", "real_inputs",
                               "batch_size", "device", labels>>,
                             out) >>,
         ret    |-> out,
         raised |-> IF fails
                    THEN [exc |-> "propagated", at |-> "override_train_ops"]
                    ELSE NoExc]

\* line 112
labels_exception(self) ==
    [self   |-> self,
     events |-> <<>>,
     ret    |-> <<>>,
     raised |-> [exc |-> "Exception", at |-> "labels"]]

\* the outcome of a step whose statements plan[1..last] were reached,
\* plan[stop] not completing (stop = 0: all completed), the loss
\* computation giving losses
outcome(self, plan, stop, last, losses) ==
    LET ran(site) == \E i \in 1..last : plan[i].site = site /\ i # stop
    IN  [self   |-> IF ran("update_k")
                    THEN update_k(self, losses[2], losses[3])
                    ELSE self,
         events |-> [i \in 1..last |->
                       IF plan[i].site = "update_k"
                       THEN [plan[i] EXCEPT !.vals = <<losses[2], losses[3]>>]
                       ELSE plan[i]],
         ret    |-> IF stop = 0 THEN <<losses[1]>> ELSE <<>>,
         raised |-> IF stop = 0 THEN NoExc
                    ELSE IF ReadsUnbound(plan[stop])
                    THEN [exc |-> "UnboundLocalError", at |-> plan[stop].site]
                    ELSE [exc |-> "propagated", at |-> plan[stop].site]]

\* a collaborator that raises has been called; a statement that reads an
\* unbound name has called nothing
run_to(self, plan, stop, losses) ==
    outcome(self, plan, stop,
            IF stop = 0 THEN Len(plan)
            ELSE IF ReadsUnbound(plan[stop]) THEN stop - 1
            ELSE stop,
            losses)

\* lines 113-140: the statements of plan run in order up to the first that
\* does not complete
run_step(self, plan, env) ==
    run_to(self, plan, Stop(plan, env.failAt), forward(self, env.dx, env.dgz))

\* variant: the labels check of line 111 made before line 107
train_ops_check_first(self, gen, disc, labels, env) ==
    IF labels_missing(gen, disc, labels)
    THEN labels_exception(self)
    ELSE IF self.override_train_ops
    THEN override_step(self, labels, env)
    ELSE run_step(self, default_step(gen, disc, labels), env)

\* lines 105-140
train_ops(self, gen, disc, labels, env) ==
    IF self.override_train_ops
    THEN override_step(self, labels, env)
    ELSE IF labels_missing(gen, disc, labels)
    THEN labels_exception(self)
    ELSE run_step(self, default_step(gen, disc, labels), env)

OneTensor == <<Rat(8, 10), Rat(6, 10)>>

\* the collaborators that a call consults: the custom step function when
\* there is one, none when the labels check of line 111 raises, else the
\* models, the loss and the optimizer.  The responses of the discriminator
\* are observed only by a step that completes; a step in which a
\* collaborator raises is given one pair
Envs(self, gen, disc, labels) ==
    IF self.override_train_ops
    THEN [failAt : {"none", "override_train_ops"},
          dx : {OneTensor}, dgz : {OneTensor}, custom : CustomRets]
    ELSE IF labels_missing(gen, disc, labels)
    THEN [failAt : {"none"},
          dx : {OneTensor}, dgz : {OneTensor}, custom : CustomRets]
    ELSE [failAt : {"none"}, dx : Tensors, dgz : Tensors, custom : CustomRets]
         \cup
         [failAt : FailSites,
          dx : {OneTensor}, dgz : {OneTensor}, custom : CustomRets]

\* ---------------------------------------------------------------- actions
Store(self) ==
    /\ reduction' = self.reduction
    /\ k' = self.k
    /\ lambd' = self.lambd
    /\ gamma' = self.gamma
    /\ convergence_metric' = self.convergence_metric
    /\ override_train_ops' = self.override_train_ops

Init ==
    \E red \in Reductions, over \in BOOLEAN, init_k \in InitKs,
       l \in Lambds, g \in Gammas :
        LET self == init(red, over, init_k, l, g)
        IN  /\ reduction = self.reduction
            /\ k = self.k
            /\ lambd = self.lambd
            /\ gamma = self.gamma
            /\ convergence_metric = self.convergence_metric
            /\ override_train_ops = self.override_train_ops
            /\ call = Call("__init__", init_k, None, <<>>, "-", "-", "-")
            /\ events = <<>>
            /\ ret = <<>>
            /\ raised = NoExc
            /\ ncalls = 0

SetK ==
    /\ ncalls < MaxCalls
    /\ \E v \in SetKs :
        /\ \E self \in {set_k(Self, v)} : Store(self)
        /\ call' = Call("set_k", v, None, <<>>, "-", "-", "-")
    /\ events' = <<>>
    /\ ret' = <<>>
    /\ raised' = NoExc
    /\ ncalls' = ncalls + 1

UpdateK ==
    /\ ncalls < MaxCalls
    /\ \E loss_real \in Losses, loss_fake \in Losses :
        /\ \E self \in {update_k(Self, loss_real, loss_fake)} : Store(self)
        /\ call' = Call("update_k", loss_real, loss_fake, <<>>, "-", "-", "-")
    /\ events' = <<>>
    /\ ret' = <<>>
    /\ raised' = NoExc
    /\ ncalls' = ncalls + 1

Forward ==
    /\ ncalls < MaxCalls
    /\ \E dx \in Tensors, dgz \in Tensors :
        /\ ret' = forward(Self, dx, dgz)
        /\ call' = Call("forward", None, None, <<dx, dgz>>, "-", "-", "-")
    /\ Store(Self)
    /\ events' = <<>>
    /\ raised' = NoExc
    /\ ncalls' = ncalls + 1

TrainOps ==
    /\ ncalls < MaxCalls
    /\ \E gen \in LabelTypes, disc \in LabelTypes, labels \in LabelArgs :
        \E env \in Envs(Self, gen, disc, labels) :
        \E r \in {train_ops(Self, gen, disc, labels, env)} :
            /\ Store(r.self)
            /\ events' = r.events
            /\ ret' = r.ret
            /\ raised' = r.raised
            /\ call' = Call("train_ops", None, None, <<>>, gen, disc, labels)
    /\ ncalls' = ncalls + 1

Next == SetK \/ UpdateK \/ Forward \/ TrainOps

Spec == Init /\ [][Next]_vars

TypeOK ==
    /\ reduction \in Reductions
    /\ k.kind \in {"num", "nan"}
    /\ convergence_metric.kind \in {"num", "nan", "None"}
    /\ ncalls \in 0..MaxCalls

\* ----------------------------------------------------------- observations
\* 0.0 <= a <= 1.0
InUnit(a) == IsNum(a) /\ 0 <= a.n /\ a.n <= a.d

\* the most recent call applied update_k: it was update_k itself, or a
\* default step that reached line 139
UpdatedK ==
    \/ call.op = "update_k"
    \/ call.op = "train_ops" /\ HasSite(events, "update_k")

UpdateEvent == events[CHOOSE i \in 1..Len(events) : events[i].site = "update_k"]

\* the arguments that update_k received
LossReal == IF call.op = "update_k" THEN call.x ELSE UpdateEvent.vals[1]
LossFake == IF call.op = "update_k" THEN call.y ELSE UpdateEvent.vals[2]

\* gamma * a - b and k0 + lambd * (gamma * a - b), unclamped
Diff(a, b) == sub(mul(gamma, a), b)
Unclamped(k0, a, b) == add(k0, mul(lambd, Diff(a, b)))

\* u brought into [0.0, 1.0]
Clamp(u) == IF lt(u, Zero) THEN Zero ELSE IF gt(u, One) THEN One ELSE u

\* the sites of evs, in order, restricted to the set sites
SitesOf(evs, sites) ==
    LET sel == SelectSeq(evs, LAMBDA e : e.site \in sites)
    IN  [i \in 1..Len(sel) |-> sel[i].site]

ArgsAt(evs, site) == evs[CHOOSE i \in 1..Len(evs) : evs[i].site = site].args

\* ----------------------------------------------------------------- claims

C2_UpdateClamps ==
    [][ ( /\ UpdatedK'
          /\ InUnit(k)
          /\ lambd.n > 0
          /\ IsNum(LossReal') /\ IsNum(LossFake') )
        => \A u \in {Unclamped(k, LossReal', LossFake')} :
               /\ InUnit(k')
               /\ gt(u, One) => k' = One
               /\ lt(u, Zero) => k' = Zero ]_vars

\* update_k called with k = 0.99 < 1 and clamped at exactly 1.0
C2_Witness ==
    /\ call.op = "update_k"
    /\ ncalls = 1
    /\ IsNum(call.x) /\ IsNum(call.y)
    /\ k = One
    /\ convergence_metric # None

\* C3: set_k(v) makes k exactly v, for v outside [0,1] too, and leaves
\* lambd, gamma and convergence_metric as they were.
C3_SetKExact ==
    [][ call'.op = "set_k"
        => /\ k' = call'.x
           /\ lambd' = lambd
           /\ gamma' = gamma
           /\ convergence_metric' = convergence_metric ]_vars

\* set_k(-0.25) after an update_k: k is -0.25 and the metric is still there
C3_Witness ==
    /\ call.op = "set_k"
    /\ call.x = Rat(-1, 4)
    /\ k = Rat(-1, 4)
    /\ IsNum(convergence_metric)

\* C9: update_k sets k to clamp(k + lambd * diff, 0, 1) and
\* convergence_metric to loss_real + |diff|, diff = gamma * loss_real -
\* loss_fake unclamped, and leaves lambd and gamma alone; k = 0, gamma =
\* 0.75, lambd = 0.001, losses 0.7 and 0.4 give k = 0.000125, metric 0.825.
C9_UpdateFormula ==
    [][ UpdatedK'
        => \A a \in {LossReal'}, b \in {LossFake'} :
               /\ lambd' = lambd
               /\ gamma' = gamma
               /\ convergence_metric' = add(a, abs(Diff(a, b)))
               /\ k' = Clamp(Unclamped(k, a, b))
               /\ ( /\ k = Zero
                    /\ gamma = [kind |-> "num", n |-> 3, d |-> 4]
                    /\ lambd = [kind |-> "num", n |-> 1, d |-> 1000]
                    /\ a = [kind |-> "num", n |-> 7, d |-> 10]
                    /\ b = [kind |-> "num", n |-> 2, d |-> 5] )
                  => /\ k' = [kind |-> "num", n |-> 1, d |-> 8000]
                     /\ convergence_metric' = [kind |-> "num", n |-> 33, d |-> 40] ]_vars

\* the example of the claim: one update_k from k = 0
C9_Witness ==
    /\ call.op = "update_k"
    /\ ncalls = 1
    /\ gamma = Rat(3, 4) /\ lambd = Rat(1, 1000)
    /\ call.x = Rat(7, 10) /\ call.y = Rat(4, 10)
    /\ k = Rat(1, 8000)
    /\ convergence_metric = Rat(33, 40)

\* the most recent call was train_ops
Step == call.op = "train_ops"

\* ... with labels absent and a model that requires them
LabelsOmitted ==
    /\ Step
    /\ call.labels = "None"
    /\ (call.generator = "required" \/ call.discriminator = "required")

Count(evs, site) == Cardinality({i \in 1..Len(evs) : evs[i].site = site})

\* C4 as stated: every train_ops call with labels absent and a model that
\* requires them fails before any computation: no collaborator is called,
\* k and convergence_metric are unchanged.
C4_LabelsOmittedFails ==
    [][ LabelsOmitted'
        => /\ raised'.exc # "none"
           /\ events' = <<>>
           /\ k' = k
           /\ convergence_metric' = convergence_metric ]_vars

\* C4, amended: the same, for a controller built without a custom step
\* function.
C4_DefaultLabelsOmittedFails ==
    [][ (LabelsOmitted' /\ ~override_train_ops)
        => /\ raised' = [exc |-> "Exception", at |-> "labels"]
           /\ events' = <<>>
           /\ ret' = <<>>
           /\ k' = k
           /\ convergence_metric' = convergence_metric ]_vars

\* the default step refused for want of labels, after an update of k
C4_Witness ==
    /\ LabelsOmitted
    /\ ~override_train_ops
    /\ raised.exc = "Exception"
    /\ IsNum(convergence_metric)

DefaultOrder ==
    <<"zero_grad", "dx", "fake", "dgz", "forward", "backward", "step", "update_k">>

OrderedStep(evs) ==
    /\ SitesOf(evs, {DefaultOrder[i] : i \in 1..Len(DefaultOrder)}) = DefaultOrder
    /\ ArgsAt(evs, "dx")[1] = "real_inputs"
    /\ ArgsAt(evs, "fake")[1] = "noise"
    /\ ArgsAt(evs, "dgz")[1] = "fake.detach()"

\* k after exactly one update_k with the losses of the step
UpdatedOnce ==
    k' = Clamp(Unclamped(k, LossReal', LossFake'))

\* C5 as stated: every train_ops call that completes makes its calls in the
\* order zero_grad, discriminator(real), generator, discriminator(fake),
\* forward, backward, step, update_k, with update_k exactly once; forward
\* does not change k.
C5_StepOrder ==
    [][ /\ (Step' /\ raised'.exc = "none")
           => (OrderedStep(events') /\ UpdatedOnce)
        /\ call'.op = "forward" => k' = k ]_vars

\* C5, amended: the same, for a controller built without a custom step
\* function.
C5_DefaultStepOrder ==
    [][ /\ (Step' /\ raised'.exc = "none" /\ ~override_train_ops)
           => (OrderedStep(events') /\ UpdatedOnce)
        /\ call'.op = "forward" => k' = k ]_vars

\* a completed default step that moved k
C5_Witness ==
    /\ Step
    /\ ~override_train_ops
    /\ raised.exc = "none"
    /\ Count(events, "update_k") = 1
    /\ ncalls = 1
    /\ k = Rat(1, 8000)

\* C6: in the default step with a 'generated' generator one label is
\* sampled, and that label goes to the generator and, unless the
\* discriminator's type is 'none', to the discriminator call on the fake;
\* with another generator and a 'required' discriminator that call gets the
\* ground-truth labels.
C6_FakeLabel ==
    (Step /\ ~override_train_ops /\ events # <<>>)
    => /\ call.generator = "generated"
          => /\ Count(events, "randint") = 1
             /\ HasSite(events, "fake")
                => ArgsAt(events, "fake") = <<"noise", "randint#1">>
             /\ (HasSite(events, "dgz") /\ call.discriminator # "none")
                => ArgsAt(events, "dgz") = <<"fake.detach()", "randint#1">>
       /\ ( /\ call.generator # "generated"
            /\ call.discriminator = "required"
            /\ HasSite(events, "dgz") )
          => /\ call.labels = "labels"
             /\ ArgsAt(events, "dgz") = <<"fake.detach()", "labels">>

\* ground-truth labels given, generator 'generated', discriminator
\* 'required': the call on the fake gets the sampled label
C6_Witness ==
    /\ Step /\ ~override_train_ops
    /\ call.generator = "generated"
    /\ call.discriminator = "required"
    /\ call.labels = "labels"
    /\ raised.exc = "none"
    /\ ArgsAt(events, "dgz")[2] = "randint#1"

\* C7: in the default step with ground-truth labels, whatever the two label
\* types, the discriminator is called on the real inputs with no label
\* ('none'), the ground-truth labels ('required') or the label sampled in
\* this step ('generated'), and the step completes and returns the loss.
C7_RealLabel ==
    (Step /\ ~override_train_ops /\ call.labels = "labels" /\ raised.exc # "propagated")
    => /\ HasSite(events, "dx")
       /\ ArgsAt(events, "dx") =
            IF call.discriminator = "none" THEN <<"real_inputs">>
            ELSE IF call.discriminator = "required" THEN <<"real_inputs", "labels">>
            ELSE <<"real_inputs", "randint#1">>
       /\ call.discriminator = "generated" => Count(events, "randint") = 1
       /\ raised.exc = "none"
       /\ Len(ret) = 1

\* C8: with a custom step function train_ops calls it once, with the
\* controller and then its own arguments, returns what it returns, and
\* does nothing else.
C8_OverrideOnly ==
    [][ (Step' /\ override_train_ops)
        => /\ Len(events') = 1
           /\ events'[1].site = "override_train_ops"
           /\ events'[1].args = <<"self", "generator", "discriminator",
                                  "optimizer_discriminator", "real_inputs",
                                  "batch_size", "device", call'.labels>>
           /\ raised'.exc = "none" => (Len(ret') = 1 /\ ret' = events'[1].vals)
           /\ raised'.exc # "none" => raised'.at = "override_train_ops"
           /\ k' = k
           /\ convergence_metric' = convergence_metric ]_vars

\* the custom step function called where the default step would have
\* refused to run
C8_Witness ==
    /\ LabelsOmitted
    /\ override_train_ops
    /\ raised.exc = "none"
    /\ Len(ret) = 1

\* C10: a default step in which a model call, the loss computation or
\* backward raises passes the failure on with k and convergence_metric
\* unchanged; neither the optimizer's step nor update_k has been called.
C10_FailedStepKeepsK ==
    [][ ( /\ Step'
          /\ ~override_train_ops
          /\ raised'.exc \in {"propagated", "UnboundLocalError"}
          /\ raised'.at \in {"dx", "fake", "dgz", "forward", "backward"} )
        => /\ k' = k
           /\ convergence_metric' = convergence_metric
           /\ ret' = <<>>
           /\ ~HasSite(events', "step")
           /\ ~HasSite(events', "update_k") ]_vars

\* backward raised after zero_grad and after an earlier update of k
C10_Witness ==
    /\ Step /\ ~override_train_ops
    /\ raised = [exc |-> "propagated", at |-> "backward"]
    /\ HasSite(events, "zero_grad")
    /\ IsNum(convergence_metric)
    /\ k = Rat(1, 8000)

====
